---- MODULE Spec2Model ----
(***************************************************************************)
(* Job orchestration of gradeFactoryWebApp: the JobManager registry        *)
(* (job_manager.py), its ThreadPoolExecutor workers, the snapshot reader   *)
(* and the HTTP handlers of api.py that drive them.                        *)
(*                                                                         *)
(* Every `with self._lock:` block of the source is one atomic step.  The   *)
(* code between two blocks (the pipeline call, the field reads of          *)
(* _serialize_job) runs without the lock and is split into its own steps.  *)
(* created_at / updated_at are wall-clock stamps and are left out.         *)
(***************************************************************************)
EXTENDS Integers, Sequences, FiniteSets, TLC

VARIABLES
    jobs,       \* JobManager.jobs: job id -> JobRecord
    queue,      \* work queue of JobManager.executor (FIFO)
    workers,    \* the executor's threads: position inside _run_* and locals
    unstarted,  \* ids whose api handler has called create_job, not yet start_*
    reader,     \* a caller inside JobManager.snapshot / _serialize_job
    response,   \* outcome of the last DELETE /jobs/{id} request
    calls,      \* history: per job, how often each capability was invoked
    submits,    \* history: per job, how many tasks were submitted for it
    versions,   \* history: values the record had while `reader` is reading it
    lib_starts, \* history: number of start_* calls made outside the api handlers
    xai_api_key,\* JobManager._api_key, the value load_api_keys() returned
    lock,       \* holder of JobManager._lock between two steps, or Unlocked
    input_dirs, \* ids of the jobs whose input directory exists on disk
    sys_stdout, \* the process-wide sys.stdout: the sink print() writes to
    sys_stderr, \* the process-wide sys.stderr
    sinks,      \* text written so far to the terminal and to each StringIO
    threads,    \* pool threads inside `with redirect_stdout(..), redirect_stderr(..)`
    dirs,       \* names of the files in the output directories given to the facade
    facade,     \* a caller inside GradeFactoryPipeline.run_full_pipeline
    fs,         \* the directories and files under jobs_root
    workspace,  \* per job id: the calls of create_job_workspace and what they gave
    grader      \* grading.run_grading's loop over the papers, inside evaluate_paper

coreVars ==
    <<jobs, queue, workers, unstarted, reader, response, calls, submits,
      versions, lib_starts, xai_api_key, lock, input_dirs>>

streamVars == <<sys_stdout, sys_stderr, sinks, threads>>

facadeVars == <<dirs, facade>>

\* Everything the registry, the scheduler and the api handlers leave alone.
workspaceVars == <<fs, workspace>>

gradingVars == <<grader>>

auxVars == <<streamVars, facadeVars, workspaceVars, gradingVars>>

vars == <<coreVars, auxVars>>

----------------------------------------------------------------------------
(* Bounds of the model *)

MaxJobs == 3

MaxReadJobs == 1

MaxApiJobs == 2

MaxLibJobs == 1

MaxLibStarts == 2

MaxEnvJobs == 2

MaxInvocations == 3

MaxFiles == 3

MaxWorkspaces == 2

MaxAllocations == 2

MaxPapers == 2

(* Program constants *)

max_workers == 2

JOB_STATUS_PENDING == "pending"

JOB_STATUS_RUNNING == "running"

JOB_STATUS_COMPLETED == "completed"

JOB_STATUS_FAILED == "failed"

JobTypes == {"process", "grade", "full"}

None == "None"

JobIds == 1 .. MaxJobs + 1

WorkerIds == 1 .. max_workers

----------------------------------------------------------------------------
(* Data model *)

StageSnapshot(name) ==
    [name |-> name, status |-> JOB_STATUS_PENDING, stdout |-> "", stderr |-> "",
     output_files |-> <<>>]

\* Bug variant: the grading stage is inserted first.
StageOrder_grading_first(job_type) ==
    (IF job_type \in {"grade", "full"} THEN <<"grading">> ELSE <<>>)
      \o (IF job_type \in {"process", "full"} THEN <<"processing">> ELSE <<>>)

\* The keys of the stages dict in insertion order.
StageOrder(job_type) ==
    (IF job_type \in {"process", "full"} THEN <<"processing">> ELSE <<>>)
      \o (IF job_type \in {"grade", "full"} THEN <<"grading">> ELSE <<>>)

_initial_stages(job_type) ==
    [n \in {StageOrder(job_type)[i] : i \in 1 .. Len(StageOrder(job_type))}
        |-> StageSnapshot(n)]

\* JobPaths.root of a job, as path components.
JobRoot(job_id) == <<"jobs", ToString(job_id)>>

StageDir(stage_name) ==
    IF stage_name = "processing" THEN "processed" ELSE "graded"

JobRecord(job_id, job_type) ==
    [job_id |-> job_id, job_type |-> job_type, status |-> JOB_STATUS_PENDING,
     stages |-> _initial_stages(job_type), error |-> None]

IsPrefix(p, s) == Len(p) <= Len(s) /\ SubSeq(s, 1, Len(p)) = p

_relative_output(job_root, path) ==
    IF IsPrefix(job_root, path)
    THEN SubSeq(path, Len(job_root) + 1, Len(path))
    ELSE path

----------------------------------------------------------------------------
(* Registry mutators: each is the effect of one `with self._lock:` block   *)
(* on the jobs map.                                                        *)

\* Bug variant: the job is not marked running before its first stage is.
_mark_job_running_dropped(js, job_id) == js

_mark_job_running(js, job_id) ==
    IF job_id \notin DOMAIN js THEN js
    ELSE IF js[job_id].status = JOB_STATUS_PENDING
         THEN [js EXCEPT ![job_id].status = JOB_STATUS_RUNNING]
         ELSE js

AllStagesCompleted(record) ==
    \A n \in DOMAIN record.stages : record.stages[n].status = JOB_STATUS_COMPLETED

\* Bug variant: the job is left as it is when every stage has completed.
_mark_job_completed_dropped(js, job_id) == js

\* Bug variant: the job is marked completed only from `pending`.
_mark_job_completed_from_pending(js, job_id) ==
    IF job_id \notin DOMAIN js THEN js
    ELSE IF AllStagesCompleted(js[job_id]) /\ js[job_id].status = JOB_STATUS_PENDING
         THEN [js EXCEPT ![job_id].status = JOB_STATUS_COMPLETED]
         ELSE js

_mark_job_completed(js, job_id) ==
    IF job_id \notin DOMAIN js THEN js
    ELSE IF AllStagesCompleted(js[job_id])
         THEN [js EXCEPT ![job_id].status = JOB_STATUS_COMPLETED]
         ELSE js

_mark_stage_status(js, job_id, stage_name, status) ==
    IF job_id \notin DOMAIN js THEN js
    ELSE IF stage_name \notin DOMAIN js[job_id].stages THEN js
         ELSE [js EXCEPT ![job_id].stages[stage_name].status = status]

\* Bug variant: completing a stage also marks the whole job completed.
_complete_stage_marks_job(js, job_id, stage_name, result) ==
    IF job_id \notin DOMAIN js THEN js
    ELSE IF stage_name \notin DOMAIN js[job_id].stages THEN js
         ELSE [js EXCEPT ![job_id].status = JOB_STATUS_COMPLETED,
                         ![job_id].stages[stage_name] =
                  [@ EXCEPT !.status = JOB_STATUS_COMPLETED,
                            !.stdout = result.stdout,
                            !.stderr = result.stderr,
                            !.output_files =
                                [i \in 1 .. Len(result.output_files) |->
                                    _relative_output(JobRoot(job_id),
                                                     result.output_files[i])]]]

\* Bug variant: the produced files are not recorded.
_complete_stage_no_outputs(js, job_id, stage_name, result) ==
    IF job_id \notin DOMAIN js THEN js
    ELSE IF stage_name \notin DOMAIN js[job_id].stages THEN js
         ELSE [js EXCEPT ![job_id].stages[stage_name] =
                  [@ EXCEPT !.status = JOB_STATUS_COMPLETED,
                            !.stdout = result.stdout,
                            !.stderr = result.stderr]]

\* Bug variant: a stage that wrote to stderr is recorded as failed.
_complete_stage_fails_on_stderr(js, job_id, stage_name, result) ==
    IF job_id \notin DOMAIN js THEN js
    ELSE IF stage_name \notin DOMAIN js[job_id].stages THEN js
         ELSE [js EXCEPT ![job_id].stages[stage_name] =
                  [@ EXCEPT !.status = IF result.stderr # ""
                                       THEN JOB_STATUS_FAILED
                                       ELSE JOB_STATUS_COMPLETED,
                            !.stdout = result.stdout,
                            !.stderr = result.stderr,
                            !.output_files =
                                [i \in 1 .. Len(result.output_files) |->
                                    _relative_output(JobRoot(job_id),
                                                     result.output_files[i])]]]

_complete_stage(js, job_id, stage_name, result) ==
    IF job_id \notin DOMAIN js THEN js
    ELSE IF stage_name \notin DOMAIN js[job_id].stages THEN js
         ELSE [js EXCEPT ![job_id].stages[stage_name] =
                  [@ EXCEPT !.status = JOB_STATUS_COMPLETED,
                            !.stdout = result.stdout,
                            !.stderr = result.stderr,
                            !.output_files =
                                [i \in 1 .. Len(result.output_files) |->
                                    _relative_output(JobRoot(job_id),
                                                     result.output_files[i])]]]

\* Bug variant: record.error is not set.
_fail_stage_no_error(js, job_id, stage_name, message) ==
    IF job_id \notin DOMAIN js THEN js
    ELSE LET failed == [js EXCEPT ![job_id].status = JOB_STATUS_FAILED]
         IN  IF stage_name \notin DOMAIN js[job_id].stages THEN failed
             ELSE [failed EXCEPT ![job_id].stages[stage_name] =
                      [@ EXCEPT !.status = JOB_STATUS_FAILED,
                                !.stderr = IF @ # "" THEN @ \o "\n" \o message
                                           ELSE message]]

\* Bug variant: every running job of the registry is failed, not only the
\* one whose stage raised.
_fail_stage_every_job(js, job_id, stage_name, message) ==
    IF job_id \notin DOMAIN js THEN js
    ELSE LET failed == [i \in DOMAIN js |->
                           IF i = job_id \/ js[i].status = JOB_STATUS_RUNNING
                           THEN [js[i] EXCEPT !.status = JOB_STATUS_FAILED,
                                              !.error = message]
                           ELSE js[i]]
         IN  IF stage_name \notin DOMAIN js[job_id].stages THEN failed
             ELSE [failed EXCEPT ![job_id].stages[stage_name] =
                      [@ EXCEPT !.status = JOB_STATUS_FAILED,
                                !.stderr = IF @ # "" THEN @ \o "\n" \o message
                                           ELSE message]]

\* Bug variant: the message is not written to the stage's stderr.
_fail_stage_keeps_stderr(js, job_id, stage_name, message) ==
    IF job_id \notin DOMAIN js THEN js
    ELSE LET failed == [js EXCEPT ![job_id].status = JOB_STATUS_FAILED,
                                  ![job_id].error = message]
         IN  IF stage_name \notin DOMAIN js[job_id].stages THEN failed
             ELSE [failed EXCEPT ![job_id].stages[stage_name].status =
                      JOB_STATUS_FAILED]

\* Bug variant: every stage of the job is marked failed.
_fail_stage_all_stages(js, job_id, stage_name, message) ==
    IF job_id \notin DOMAIN js THEN js
    ELSE LET failed == [js EXCEPT ![job_id].status = JOB_STATUS_FAILED,
                                  ![job_id].error = message]
         IN  IF stage_name \notin DOMAIN js[job_id].stages THEN failed
             ELSE [failed EXCEPT ![job_id].stages =
                      [n \in DOMAIN @ |->
                          [@[n] EXCEPT !.status = JOB_STATUS_FAILED,
                                       !.stderr = IF n # stage_name THEN @
                                                  ELSE IF @ # ""
                                                  THEN @ \o "\n" \o message
                                                  ELSE message]]]

\* Bug variant: the message replaces the stage's stderr.
_fail_stage_overwrites_stderr(js, job_id, stage_name, message) ==
    IF job_id \notin DOMAIN js THEN js
    ELSE LET failed == [js EXCEPT ![job_id].status = JOB_STATUS_FAILED,
                                  ![job_id].error = message]
         IN  IF stage_name \notin DOMAIN js[job_id].stages THEN failed
             ELSE [failed EXCEPT ![job_id].stages[stage_name] =
                      [@ EXCEPT !.status = JOB_STATUS_FAILED,
                                !.stderr = message]]

\* Bug variant: the message is stored with the exception's type in front.
_fail_stage_with_type(js, job_id, stage_name, message) ==
    IF job_id \notin DOMAIN js THEN js
    ELSE LET failed == [js EXCEPT ![job_id].status = JOB_STATUS_FAILED,
                                  ![job_id].error = message]
         IN  IF stage_name \notin DOMAIN js[job_id].stages THEN failed
             ELSE [failed EXCEPT ![job_id].stages[stage_name] =
                      [@ EXCEPT !.status = JOB_STATUS_FAILED,
                                !.stderr = IF @ # ""
                                           THEN @ \o "\nError: " \o message
                                           ELSE "Error: " \o message]]

\* Bug variant: the error is recorded and the stage failed, the job's status
\* is left as it was.
_fail_stage_keeps_status(js, job_id, stage_name, message) ==
    IF job_id \notin DOMAIN js THEN js
    ELSE LET failed == [js EXCEPT ![job_id].error = message]
         IN  IF stage_name \notin DOMAIN js[job_id].stages THEN failed
             ELSE [failed EXCEPT ![job_id].stages[stage_name] =
                      [@ EXCEPT !.status = JOB_STATUS_FAILED,
                                !.stderr = IF @ # "" THEN @ \o "\n" \o message
                                           ELSE message]]

_fail_stage(js, job_id, stage_name, message) ==
    IF job_id \notin DOMAIN js THEN js
    ELSE LET failed == [js EXCEPT ![job_id].status = JOB_STATUS_FAILED,
                                  ![job_id].error = message]
         IN  IF stage_name \notin DOMAIN js[job_id].stages THEN failed
             ELSE [failed EXCEPT ![job_id].stages[stage_name] =
                      [@ EXCEPT !.status = JOB_STATUS_FAILED,
                                !.stderr = IF @ # "" THEN @ \o "\n" \o message
                                           ELSE message]]

----------------------------------------------------------------------------
(* Pipeline facade: what one stage invocation can yield *)

EmptyResult == [output_files |-> <<>>, stdout |-> "", stderr |-> ""]

\* Absolute path of a file in a job's output directory of a stage.
OutputPath(job_id, stage_name, name) ==
    JobRoot(job_id) \o <<StageDir(stage_name), name>>

\* StageResult values pipeline.run_processing / run_grading can return for a
\* job with two input files: the capability wrote one new file per input, or
\* every input file errored inside the capability's item loop (nothing
\* written; processing.py prints the error text to stdout, grading.py to
\* stderr).
StageResults(job_id, stage_name) ==
    { [output_files |-> << OutputPath(job_id, stage_name, "a.pdf"),
                           OutputPath(job_id, stage_name, "b.pdf") >>,
       stdout |-> "out", stderr |-> ""],
      IF stage_name = "processing"
      THEN [output_files |-> <<>>, stdout |-> "out\nitem error", stderr |-> ""]
      ELSE [output_files |-> <<>>, stdout |-> "out", stderr |-> "item error"] }

\* The results possible with the given API key.  Without a key every item
\* fails inside the item loop: evaluate_paper raises ("XAI_API_KEY is
\* required.") and fix_ocr_mistakes' request is refused, and each loop catches
\* the exception, prints it and goes on to the next file.
CapabilityResults(job_id, stage_name, api_key) ==
    IF api_key = None
    THEN {r \in StageResults(job_id, stage_name) : r.output_files = <<>>}
    ELSE StageResults(job_id, stage_name)

\* Messages of the exceptions the external capability can raise.
CapabilityFaults == {"boom"}

\* Bug variant: the rubric is not checked.
Precondition_no_rubric_check(stage_name, input_exists, rubric_exists) ==
    IF ~input_exists THEN "Input folder not found" ELSE None

\* Precondition checks of pipeline.run_processing / run_grading before the
\* capability is called: the input directory, then (grading) the rubric.  The
\* value is the message of the FileNotFoundError raised, or None.
Precondition(stage_name, input_exists, rubric_exists) ==
    IF ~input_exists THEN "Input folder not found"
    ELSE IF stage_name = "grading" /\ ~rubric_exists
         THEN "Rubric file not found"
         ELSE None

----------------------------------------------------------------------------
(* Scheduler: submission and the worker threads *)

RunFns == {"_run_processing_job", "_run_grading_job", "_run_full_pipeline"}

Task(fn, job_id, rubric_exists) ==
    [fn |-> fn, job_id |-> job_id, rubric_exists |-> rubric_exists]

IdleWorker ==
    [pc |-> "idle", fn |-> None, job_id |-> 0, rubric_exists |-> TRUE,
     stage |-> None, result |-> EmptyResult, message |-> ""]

\* The start method api.py calls for each job type.
StartFn(job_type) ==
    CASE job_type = "process" -> "_run_processing_job"
      [] job_type = "grade"   -> "_run_grading_job"
      [] OTHER                -> "_run_full_pipeline"

\* Bug variant: the full pipeline starts with its grading stage.
FirstStage_grading(fn) ==
    IF fn = "_run_processing_job" THEN "processing" ELSE "grading"

\* The stage a run function begins with.
FirstStage(fn) ==
    IF fn = "_run_grading_job" THEN "grading" ELSE "processing"

\* Whether the input directory a stage reads exists.  The first stage of a
\* run reads a directory create_job_workspace made; the grading stage of
\* _run_full_pipeline reads `processed`, which run_processing has just made
\* sure of (mkdir, exist_ok).
InputExists(job_id, fn, stage_name) ==
    stage_name # FirstStage(fn) \/ job_id \in input_dirs

\* Value of `lock` when no thread holds it; a holder is a worker's number.
Unlocked == 0

\* A `with self._lock:` block: entered when the lock is free, left with the
\* lock released, all in one step.
with_lock == lock = Unlocked /\ lock' = Unlocked

\* Bug variant: pipeline.run_* is called inside the `with self._lock:` block.
HeldAcrossCall_inside_with(w) == w

\* The holder of the lock while a worker is inside pipeline.run_*: the call
\* is made after the `with` block of get_job was left.
HeldAcrossCall(w) == Unlocked

\* Bug variant: the worker returns without calling _mark_job_completed.
AfterComplete_returns(fn, stage_name) ==
    IF fn = "_run_full_pipeline" /\ stage_name = "processing"
    THEN "mark_stage_status"
    ELSE "idle"

\* Where a worker goes after _complete_stage.
AfterComplete(fn, stage_name) ==
    IF fn = "_run_full_pipeline" /\ stage_name = "processing"
    THEN "mark_stage_status"
    ELSE "mark_job_completed"

\* Bug variant: the `return` of line 167 is missing, so a full job goes on to
\* its grading stage after its processing stage failed.
AfterFail_no_return(fn, stage_name) ==
    IF fn = "_run_full_pipeline" /\ stage_name = "processing"
    THEN "mark_stage_status"
    ELSE "idle"

\* Bug variant: a failed stage is run again.
AfterFail_retries(fn, stage_name) ==
    IF stage_name = "grading" THEN "mark_stage_status" ELSE "idle"

\* Where a worker goes after _fail_stage: `return` (line 167) or the end of
\* the function.
AfterFail(fn, stage_name) == "idle"

_submit(fn, job_id, rubric_exists) ==
    /\ queue' = Append(queue, Task(fn, job_id, rubric_exists))
    /\ submits' = [submits EXCEPT ![job_id] = @ + 1]

\* History of the record a reader is serializing.
Track(js) ==
    versions' = IF reader.pc \notin {"idle", "done"} /\ reader.job_id \in DOMAIN js
                THEN versions \cup {js[reader.job_id]}
                ELSE versions

\* create_job, as called by the POST /jobs/* handlers of api.py.
create_job(job_type) ==
    LET job_id == Cardinality(DOMAIN jobs) + 1 IN
    /\ jobs' = [i \in DOMAIN jobs \cup {job_id} |->
                   IF i = job_id THEN JobRecord(job_id, job_type) ELSE jobs[i]]
    /\ unstarted' = unstarted \cup {job_id}
    /\ input_dirs' = input_dirs \cup {job_id}
    /\ with_lock
    /\ UNCHANGED <<queue, workers, reader, response, calls, submits, versions,
                   lib_starts, xai_api_key, auxVars>>

\* The handler that created job_id goes on to start it with the method of
\* its job type; the rubric it passes was written by write_rubric.  Ids are
\* opaque tokens, so of the handlers racing to submit, the one holding the
\* lowest id is taken to submit first (any other order is a renaming of ids).
api_start(job_id) ==
    /\ job_id \in unstarted
    /\ \A i \in unstarted : job_id <= i
    /\ _submit(StartFn(jobs[job_id].job_type), job_id, TRUE)
    /\ unstarted' = unstarted \ {job_id}
    /\ UNCHANGED <<jobs, workers, reader, response, calls, versions, lib_starts,
                   xai_api_key, lock, input_dirs, auxVars>>

\* start_processing_job / start_grading_job / start_full_pipeline called
\* directly on the JobManager, with any id and any rubric path.
lib_start(fn, job_id, rubric_exists) ==
    /\ lib_starts < MaxLibStarts
    /\ lib_starts' = lib_starts + 1
    /\ _submit(fn, job_id, rubric_exists)
    /\ UNCHANGED <<jobs, workers, unstarted, reader, response, calls, versions,
                   xai_api_key, lock, input_dirs, auxVars>>

\* A start_* call made for the job's own type, once, with a rubric path that
\* may or may not exist.
env_start(job_id, rubric_exists) ==
    /\ job_id \in unstarted
    /\ \A i \in unstarted : job_id <= i
    /\ _submit(StartFn(jobs[job_id].job_type), job_id, rubric_exists)
    /\ unstarted' = unstarted \ {job_id}
    /\ UNCHANGED <<jobs, workers, reader, response, calls, versions, lib_starts,
                   xai_api_key, lock, input_dirs, auxVars>>

\* The input directory of a job is removed from the disk, from outside the
\* program.  A removal has an effect only if it precedes the is_dir() check of
\* the job's first stage, so it is taken to happen before the job is started.
remove_input_dir(job_id) ==
    /\ job_id \in input_dirs
    /\ job_id \in unstarted
    /\ input_dirs' = input_dirs \ {job_id}
    /\ UNCHANGED <<jobs, queue, workers, unstarted, reader, response, calls,
                   submits, versions, lib_starts, xai_api_key, lock, auxVars>>

\* An idle thread of the pool takes the oldest queued task.  Threads are
\* interchangeable, so the lowest idle one takes it.
Dequeue(w) ==
    /\ workers[w].pc = "idle"
    /\ \A v \in WorkerIds : v < w => workers[v].pc # "idle"
    /\ queue # <<>>
    /\ workers' = [workers EXCEPT ![w] =
           [IdleWorker EXCEPT !.pc = "mark_job_running",
                              !.fn = Head(queue).fn,
                              !.job_id = Head(queue).job_id,
                              !.rubric_exists = Head(queue).rubric_exists,
                              !.stage = FirstStage(Head(queue).fn)]]
    /\ queue' = Tail(queue)
    /\ UNCHANGED <<jobs, unstarted, reader, response, calls, submits, versions,
                   lib_starts, xai_api_key, lock, input_dirs, auxVars>>

MarkJobRunning(w) ==
    /\ workers[w].pc = "mark_job_running"
    /\ jobs' = _mark_job_running(jobs, workers[w].job_id)
    /\ workers' = [workers EXCEPT ![w].pc = "mark_stage_status"]
    /\ Track(jobs')
    /\ with_lock
    /\ UNCHANGED <<queue, unstarted, reader, response, calls, submits, lib_starts,
                   xai_api_key, input_dirs, auxVars>>

MarkStageRunning(w) ==
    /\ workers[w].pc = "mark_stage_status"
    /\ jobs' = _mark_stage_status(jobs, workers[w].job_id, workers[w].stage,
                                  JOB_STATUS_RUNNING)
    /\ workers' = [workers EXCEPT ![w].pc = "invoke"]
    /\ Track(jobs')
    /\ with_lock
    /\ UNCHANGED <<queue, unstarted, reader, response, calls, submits, lib_starts,
                   xai_api_key, input_dirs, auxVars>>

\* get_job and the entry of pipeline.run_*: a missing record or a failed
\* precondition raises; otherwise the external capability is called.
Invoke(w) ==
    LET wk == workers[w]
        pre == Precondition(wk.stage,
                            InputExists(wk.job_id, wk.fn, wk.stage),
                            wk.rubric_exists) IN
    /\ wk.pc = "invoke"
    /\ lock = Unlocked
    /\ IF wk.job_id \notin DOMAIN jobs
       THEN /\ workers' = [workers EXCEPT ![w].pc = "fail_stage",
                                          ![w].message = "Job not found"]
            /\ UNCHANGED <<calls, lock>>
       ELSE IF pre # None
       THEN /\ workers' = [workers EXCEPT ![w].pc = "fail_stage",
                                          ![w].message = pre]
            /\ UNCHANGED <<calls, lock>>
       ELSE /\ workers' = [workers EXCEPT ![w].pc = "in_capability"]
            /\ calls' = [calls EXCEPT ![wk.job_id][wk.stage] = @ + 1]
            /\ lock' = HeldAcrossCall(w)
    /\ UNCHANGED <<jobs, queue, unstarted, reader, response, submits, versions,
                   lib_starts, xai_api_key, input_dirs, auxVars>>

\* The external capability returns normally or raises; a lock held around
\* the call is released as its `with` block is left.
CapabilityReturns(w) ==
    LET wk == workers[w] IN
    /\ wk.pc = "in_capability"
    /\ \/ \E r \in CapabilityResults(wk.job_id, wk.stage, xai_api_key) :
            workers' = [workers EXCEPT ![w].pc = "complete_stage",
                                       ![w].result = r]
       \/ \E m \in CapabilityFaults :
            workers' = [workers EXCEPT ![w].pc = "fail_stage",
                                       ![w].message = m]
    /\ lock' = IF lock = w THEN Unlocked ELSE lock
    /\ UNCHANGED <<jobs, queue, unstarted, reader, response, calls, submits,
                   versions, lib_starts, xai_api_key, input_dirs, auxVars>>

Continue(wk, pc) ==
    IF pc = "idle" THEN IdleWorker
    ELSE [wk EXCEPT !.pc = pc, !.stage = "grading", !.result = EmptyResult,
                    !.message = ""]

CompleteStage(w) ==
    LET wk == workers[w] IN
    /\ wk.pc = "complete_stage"
    /\ jobs' = _complete_stage(jobs, wk.job_id, wk.stage, wk.result)
    /\ workers' = [workers EXCEPT ![w] =
           IF AfterComplete(wk.fn, wk.stage) = "mark_job_completed"
           THEN [wk EXCEPT !.pc = "mark_job_completed", !.result = EmptyResult]
           ELSE Continue(wk, AfterComplete(wk.fn, wk.stage))]
    /\ Track(jobs')
    /\ with_lock
    /\ UNCHANGED <<queue, unstarted, reader, response, calls, submits, lib_starts,
                   xai_api_key, input_dirs, auxVars>>

MarkJobCompleted(w) ==
    /\ workers[w].pc = "mark_job_completed"
    /\ jobs' = _mark_job_completed(jobs, workers[w].job_id)
    /\ workers' = [workers EXCEPT ![w] = IdleWorker]
    /\ Track(jobs')
    /\ with_lock
    /\ UNCHANGED <<queue, unstarted, reader, response, calls, submits, lib_starts,
                   xai_api_key, input_dirs, auxVars>>

FailStage(w) ==
    LET wk == workers[w] IN
    /\ wk.pc = "fail_stage"
    /\ jobs' = _fail_stage(jobs, wk.job_id, wk.stage, wk.message)
    /\ workers' = [workers EXCEPT ![w] = Continue(wk, AfterFail(wk.fn, wk.stage))]
    /\ Track(jobs')
    /\ with_lock
    /\ UNCHANGED <<queue, unstarted, reader, response, calls, submits, lib_starts,
                   xai_api_key, input_dirs, auxVars>>

WorkerStep(w) ==
    \/ Dequeue(w)
    \/ MarkJobRunning(w)
    \/ MarkStageRunning(w)
    \/ Invoke(w)
    \/ CapabilityReturns(w)
    \/ CompleteStage(w)
    \/ MarkJobCompleted(w)
    \/ FailStage(w)

----------------------------------------------------------------------------
(* Readers: get_job / list_jobs hand out the live record; snapshot reads   *)
(* its fields in _serialize_job after the lock was released.               *)

\* `found` tells a snapshot of a record from the None of an unknown id;
\* `quiet` notes whether the job's worker had returned when the call began.
IdleReader ==
    [pc |-> "idle", job_id |-> 0, status |-> None, error |-> None,
     stages |-> <<>>, found |-> FALSE, quiet |-> FALSE]

\* No task for the job is queued or held by a worker, and its handler has
\* submitted it: the worker executing the job has returned.
Quiescent(job_id) ==
    /\ job_id \notin unstarted
    /\ submits[job_id] > 0
    /\ \A i \in 1 .. Len(queue) : queue[i].job_id # job_id
    /\ \A w \in WorkerIds : workers[w].job_id # job_id

\* snapshot(job_id): get_job under the lock; None when the id is unknown.
snapshot_begin(job_id) ==
    /\ reader.pc = "idle"
    /\ IF job_id \in DOMAIN jobs
       THEN /\ reader' = [IdleReader EXCEPT !.pc = "status", !.job_id = job_id,
                                            !.found = TRUE,
                                            !.quiet = Quiescent(job_id)]
            /\ versions' = {jobs[job_id]}
       ELSE /\ reader' = [IdleReader EXCEPT !.pc = "done", !.job_id = job_id]
            /\ versions' = {}
    /\ with_lock
    /\ UNCHANGED <<jobs, queue, workers, unstarted, response, calls, submits,
                   lib_starts, xai_api_key, input_dirs, auxVars>>

\* _serialize_job, one read of the live record per step: "status", "error",
\* then one entry of the "stages" list per stage, in dict order.
_serialize_job ==
    LET record == jobs[reader.job_id]
        order  == StageOrder(record.job_type)
        k      == Len(reader.stages) + 1 IN
    /\ reader.pc \in {"status", "error", "stages"}
    /\ reader' =
         CASE reader.pc = "status" ->
                [reader EXCEPT !.status = record.status, !.pc = "error"]
           [] reader.pc = "error" ->
                [reader EXCEPT !.error = record.error,
                               !.pc = IF order = <<>> THEN "done" ELSE "stages"]
           [] OTHER ->
                [reader EXCEPT !.stages = Append(@, record.stages[order[k]]),
                               !.pc = IF k = Len(order) THEN "done" ELSE "stages"]
    /\ UNCHANGED <<jobs, queue, workers, unstarted, response, calls, submits,
                   versions, lib_starts, xai_api_key, lock, input_dirs,
                   auxVars>>

\* The caller takes the finished snapshot.
snapshot_return ==
    /\ reader.pc = "done"
    /\ reader' = IdleReader
    /\ versions' = {}
    /\ UNCHANGED <<jobs, queue, workers, unstarted, response, calls, submits,
                   lib_starts, xai_api_key, lock, input_dirs, auxVars>>

\* The snapshot dict a finished reader holds, as a record value.
SnapshotOf(rd) ==
    [status |-> rd.status, error |-> rd.error, stages |-> rd.stages]

\* The same projection of a record of the registry.
Serialized(record) ==
    [status |-> record.status, error |-> record.error,
     stages |-> [i \in 1 .. Len(StageOrder(record.job_type)) |->
                    record.stages[StageOrder(record.job_type)[i]]]]

----------------------------------------------------------------------------
(* DELETE /jobs/{job_id} *)

NoResponse == [job_id |-> 0, before |-> None, outcome |-> None]

\* What manager.delete_job(job_id) raises: JobManager defines no delete_job,
\* so the attribute lookup itself raises AttributeError for every id.
manager_delete_job(js, job_id) == "AttributeError"

\* api.delete_job: KeyError -> 404, RuntimeError -> 400, no exception -> the
\* "deleted" body; any other exception leaves the handler.
delete_job_outcome(raised) ==
    CASE raised = "KeyError"     -> "404 Job not found"
      [] raised = "RuntimeError" -> "400 job busy"
      [] raised = None           -> "200 deleted"
      [] OTHER                   -> "500 " \o raised

StatusOf(js, job_id) ==
    IF job_id \in DOMAIN js THEN js[job_id].status ELSE "absent"

delete_job(job_id) ==
    /\ response' = [job_id |-> job_id, before |-> StatusOf(jobs, job_id),
                    outcome |-> delete_job_outcome(manager_delete_job(jobs, job_id))]
    /\ response' # response
    /\ UNCHANGED <<jobs, queue, workers, unstarted, reader, calls, submits,
                   versions, lib_starts, xai_api_key, lock, input_dirs,
                   auxVars>>

----------------------------------------------------------------------------
(* Output capture of pipeline.run_processing / run_grading:                *)
(*     with redirect_stdout(stdout_buffer), redirect_stderr(stderr_buffer): *)
(*         run_...(...)                                                     *)
(* run by the pool's threads.  sys.stdout and sys.stderr are attributes of  *)
(* the process, not of a thread; print() looks the attribute up at each     *)
(* call.                                                                    *)

\* The terminal streams the process starts with.
__stdout__ == <<"__stdout__", 0, 0>>

__stderr__ == <<"__stderr__", 0, 0>>

\* The StringIO objects made by the n-th invocation of thread w.
stdout_buffer(w, n) == <<"stdout_buffer", w, n>>

stderr_buffer(w, n) == <<"stderr_buffer", w, n>>

Sinks ==
    {__stdout__, __stderr__}
      \cup {stdout_buffer(w, n) : w \in WorkerIds, n \in 1 .. MaxInvocations}
      \cup {stderr_buffer(w, n) : w \in WorkerIds, n \in 1 .. MaxInvocations}

\* The print calls of one capability run, by stream: grading.run_grading
\* prints its banner to stdout and an item's error to stderr.
Prints == <<"stdout", "stderr">>

NoText == [stdout |-> <<>>, stderr |-> <<>>]

\* `n` counts the invocations the thread has begun, `printed` is what its own
\* capability call has printed, `result` the captured text it returned.
IdleThread ==
    [pc |-> "idle", n |-> 0, k |-> 1, old_stdout |-> __stdout__,
     old_stderr |-> __stderr__, printed |-> NoText, result |-> NoText]

\* The number of invocations begun so far, by all threads.
Begun ==
    Cardinality({<<w, i>> \in WorkerIds \X (1 .. MaxInvocations) :
                    i <= threads[w].n})

\* pipeline.py 87-88 / 122-123: two fresh StringIO buffers.
new_buffers(w) ==
    /\ threads[w].pc \in {"idle", "returned"}
    /\ Begun < MaxInvocations
    /\ threads' = [threads EXCEPT ![w] =
           [IdleThread EXCEPT !.pc = "redirect_stdout", !.n = threads[w].n + 1]]
    /\ UNCHANGED <<coreVars, facadeVars, workspaceVars, gradingVars, sys_stdout, sys_stderr, sinks>>

\* redirect_stdout.__enter__: remember the current sys.stdout, install the
\* buffer.
redirect_stdout_enter(w) ==
    /\ threads[w].pc = "redirect_stdout"
    /\ threads' = [threads EXCEPT ![w].pc = "redirect_stderr",
                                  ![w].old_stdout = sys_stdout]
    /\ sys_stdout' = stdout_buffer(w, threads[w].n)
    /\ UNCHANGED <<coreVars, facadeVars, workspaceVars, gradingVars, sys_stderr, sinks>>

redirect_stderr_enter(w) ==
    /\ threads[w].pc = "redirect_stderr"
    /\ threads' = [threads EXCEPT ![w].pc = "print",
                                  ![w].old_stderr = sys_stderr]
    /\ sys_stderr' = stderr_buffer(w, threads[w].n)
    /\ UNCHANGED <<coreVars, facadeVars, workspaceVars, gradingVars, sys_stdout, sinks>>

\* One print() of the capability: the text goes to whatever sys.stdout (or
\* sys.stderr) is at this moment.
print(w) ==
    LET th     == threads[w]
        stream == Prints[th.k]
        text   == <<w, th.n, th.k>>
        target == IF stream = "stdout" THEN sys_stdout ELSE sys_stderr IN
    /\ th.pc = "print"
    /\ sinks' = [sinks EXCEPT ![target] = Append(@, text)]
    /\ threads' = [threads EXCEPT
           ![w].printed[stream] = Append(@, text),
           ![w].k = th.k + 1,
           ![w].pc = IF th.k = Len(Prints) THEN "restore_stderr" ELSE "print"]
    /\ UNCHANGED <<coreVars, facadeVars, workspaceVars, gradingVars, sys_stdout, sys_stderr>>

\* redirect_stderr.__exit__, then redirect_stdout.__exit__: put back what
\* __enter__ remembered.
redirect_stderr_exit(w) ==
    /\ threads[w].pc = "restore_stderr"
    /\ sys_stderr' = threads[w].old_stderr
    /\ threads' = [threads EXCEPT ![w].pc = "restore_stdout"]
    /\ UNCHANGED <<coreVars, facadeVars, workspaceVars, gradingVars, sys_stdout, sinks>>

redirect_stdout_exit(w) ==
    /\ threads[w].pc = "restore_stdout"
    /\ sys_stdout' = threads[w].old_stdout
    /\ threads' = [threads EXCEPT ![w].pc = "getvalue"]
    /\ UNCHANGED <<coreVars, facadeVars, workspaceVars, gradingVars, sys_stderr, sinks>>

\* stdout_buffer.getvalue(), stderr_buffer.getvalue() and the return of the
\* StageResult.
getvalue(w) ==
    /\ threads[w].pc = "getvalue"
    /\ threads' = [threads EXCEPT
           ![w].pc = "returned",
           ![w].result = [stdout |-> sinks[stdout_buffer(w, threads[w].n)],
                          stderr |-> sinks[stderr_buffer(w, threads[w].n)]]]
    /\ UNCHANGED <<coreVars, facadeVars, workspaceVars, gradingVars, sys_stdout, sys_stderr, sinks>>

ThreadStep(w) ==
    \/ new_buffers(w)
    \/ redirect_stdout_enter(w)
    \/ redirect_stderr_enter(w)
    \/ print(w)
    \/ redirect_stderr_exit(w)
    \/ redirect_stdout_exit(w)
    \/ getvalue(w)

----------------------------------------------------------------------------
(* The job-less facade: GradeFactoryPipeline.run_full_pipeline, and the    *)
(* listing of new files each stage run makes of its output directory.      *)

\* File names are sequences of character codes.  The i-th name of the model:
\* "b", "a2", "b3", "a4", ... so that neither the order of creation nor the
\* length of a name is its lexicographic rank.
Name(i) ==
    IF i = 1 THEN <<2>> ELSE IF i % 2 = 0 THEN <<1, i>> ELSE <<2, i>>

FileNames == {Name(i) : i \in 1 .. MaxFiles}

OutputDirs == {"processed", "graded"}

\* Python's order of str: by code point, a proper prefix first.
RECURSIVE LexLess(_, _)
LexLess(a, b) ==
    IF a = <<>> THEN b # <<>>
    ELSE IF b = <<>> THEN FALSE
    ELSE IF Head(a) # Head(b) THEN Head(a) < Head(b)
    ELSE LexLess(Tail(a), Tail(b))

\* sorted(names)
RECURSIVE sorted(_)
sorted(names) ==
    IF names = {} THEN <<>>
    ELSE LET least == CHOOSE n \in names :
                         \A m \in names \ {n} : LexLess(n, m)
         IN  <<least>> \o sorted(names \ {least})

\* The names of a directory in the order of their creation.
RECURSIVE created(_, _)
created(names, i) ==
    IF i > MaxFiles THEN <<>>
    ELSE (IF Name(i) \in names THEN <<Name(i)>> ELSE <<>>) \o created(names, i + 1)

\* Bug variant: the new files are reported in directory order.
new_files_unsorted(before, after) ==
    SelectSeq(created(after, 1), LAMBDA name : name \notin before)

\* [after[name] for name in sorted(after.keys()) if name not in before]
new_files(before, after) ==
    SelectSeq(sorted(after), LAMBDA name : name \notin before)

NoStageResult == [present |-> FALSE, output_files |-> <<>>]

\* A StageResult, reduced to its output_files.
StageResult(output_files) == [present |-> TRUE, output_files |-> output_files]

\* PipelineResult(processing, grading)
PipelineResult(processing, grading) ==
    [kind |-> "PipelineResult", processing |-> processing, grading |-> grading]

\* The call left run_full_pipeline with an exception.
Raised(message) == [kind |-> "raised", message |-> message]

NoOutcome == [kind |-> "none"]

\* The stage whose run is in progress, the directory listings it took, the
\* results so far, how often each capability was entered, and what the call
\* gave its caller.
IdleFacade ==
    [pc |-> "idle", stage |-> None, input_exists |-> TRUE,
     rubric_exists |-> TRUE, before |-> {}, after |-> {},
     processing |-> NoStageResult, grading |-> NoStageResult,
     invoked |-> [processing |-> 0, grading |-> 0], failed |-> None,
     outcome |-> NoOutcome]

\* run_full_pipeline has no try/except: an exception of run_processing or
\* run_grading leaves it as it is.
AfterRaise(fc, message) ==
    [fc EXCEPT !.pc = "raised", !.failed = fc.stage, !.outcome = Raised(message)]

\* run_full_pipeline(input_folder, rubric_path=...) is called.
run_full_pipeline(input_exists, rubric_exists) ==
    /\ facade.pc = "idle"
    /\ facade' = [facade EXCEPT !.pc = "check", !.stage = "processing",
                                !.input_exists = input_exists,
                                !.rubric_exists = rubric_exists]
    /\ UNCHANGED <<coreVars, streamVars, workspaceVars, gradingVars, dirs>>

\* Entry of run_processing / run_grading: the precondition checks, then the
\* `before` listing of the destination.
facade_before ==
    LET fc  == facade
        pre == Precondition(fc.stage,
                            fc.stage = "grading" \/ fc.input_exists,
                            fc.rubric_exists) IN
    /\ fc.pc = "check"
    /\ facade' = IF pre # None THEN AfterRaise(fc, pre)
                 ELSE [fc EXCEPT !.pc = "capability",
                                 !.before = dirs[StageDir(fc.stage)],
                                 !.invoked[fc.stage] = @ + 1]
    /\ UNCHANGED <<coreVars, streamVars, workspaceVars, gradingVars, dirs>>

\* The capability runs: when it returns the destination holds some set of
\* files (it writes files; nothing stops other programs from adding or
\* removing files meanwhile), or it raises.
facade_capability ==
    LET fc == facade IN
    /\ fc.pc = "capability"
    /\ \/ /\ \E present \in SUBSET FileNames :
                dirs' = [dirs EXCEPT ![StageDir(fc.stage)] = present]
          /\ facade' = [fc EXCEPT !.pc = "after"]
       \/ /\ \E m \in CapabilityFaults : facade' = AfterRaise(fc, m)
          /\ UNCHANGED dirs
    /\ UNCHANGED <<coreVars, streamVars, workspaceVars, gradingVars>>

\* The `after` listing and the StageResult; run_full_pipeline goes on to
\* run_grading, or returns the PipelineResult.
facade_after ==
    LET fc     == facade
        after  == dirs[StageDir(fc.stage)]
        result == StageResult(new_files(fc.before, after)) IN
    /\ fc.pc = "after"
    /\ facade' =
         IF fc.stage = "processing"
         THEN [fc EXCEPT !.pc = "check", !.stage = "grading", !.after = after,
                         !.processing = result]
         ELSE [fc EXCEPT !.pc = "returned", !.after = after, !.grading = result,
                         !.outcome = PipelineResult(fc.processing, result)]
    /\ UNCHANGED <<coreVars, streamVars, workspaceVars, gradingVars, dirs>>

----------------------------------------------------------------------------
(* The workspace allocator: GradeFactoryPipeline.create_job_workspace, and *)
(* the writes that put files into a workspace.                              *)

WorkspaceIds == 1 .. MaxWorkspaces

\* create_job_workspace() called without an id (`job_id or uuid.uuid4().hex`).
NoJobId == 0

jobs_root == <<"jobs">>

\* JobPaths(job_identifier, job_root, raw_dir, processed_dir, graded_dir,
\*          rubric_dir, artifacts_dir)
JobPaths(job_identifier) ==
    LET job_root == JobRoot(job_identifier) IN
    [job_id |-> job_identifier, root |-> job_root,
     raw_input |-> job_root \o <<"raw">>,
     processed |-> job_root \o <<"processed">>,
     graded |-> job_root \o <<"graded">>,
     rubric |-> job_root \o <<"rubric">>,
     artifacts |-> job_root \o <<"artifacts">>]

NoJobPaths ==
    [job_id |-> NoJobId, root |-> <<>>, raw_input |-> <<>>, processed |-> <<>>,
     graded |-> <<>>, rubric |-> <<>>, artifacts |-> <<>>]

\* The path and its parents.
Parents(path) == {SubSeq(path, 1, k) : k \in 1 .. Len(path) - 1}

\* Bug variant: path.mkdir(parents=True), which raises FileExistsError when
\* the path is there already.
mkdir_exist_not_ok(disk, path) ==
    IF disk.raised THEN disk
    ELSE IF path \in disk.files \cup disk.dirs
            \/ Parents(path) \cap disk.files # {}
    THEN [disk EXCEPT !.raised = TRUE]
    ELSE [disk EXCEPT !.dirs = @ \cup Parents(path) \cup {path}]

\* path.mkdir(parents=True, exist_ok=True): FileExistsError when the path is
\* a file, NotADirectoryError when a parent is; an existing directory is
\* left as it is.  `raised` carries an earlier exception of the caller on.
mkdir(disk, path) ==
    IF disk.raised THEN disk
    ELSE IF path \in disk.files \/ Parents(path) \cap disk.files # {}
    THEN [disk EXCEPT !.raised = TRUE]
    ELSE [disk EXCEPT !.dirs = @ \cup Parents(path) \cup {path}]

\* for path in (job_root, raw_dir, ...): path.mkdir(parents=True, exist_ok=True)
RECURSIVE mkdir_each(_, _)
mkdir_each(disk, paths) ==
    IF paths = <<>> THEN disk
    ELSE mkdir_each(mkdir(disk, Head(paths)), Tail(paths))

\* The files below a directory.
FilesUnder(files, root) ==
    {f \in files : Len(f) > Len(root) /\ SubSeq(f, 1, Len(root)) = root}

NoWorkspace ==
    [calls |-> 0, raised |-> FALSE, returned |-> NoJobPaths, found |-> FALSE]

\* uuid.uuid4().hex: an identifier nothing was made of before.
Unused(id) ==
    /\ workspace[id].calls = 0
    /\ JobRoot(id) \notin fs.files \cup fs.dirs

\* create_job_workspace(job_id)
create_job_workspace(job_id) ==
    \E job_identifier \in WorkspaceIds :
        LET p    == JobPaths(job_identifier)
            disk == mkdir_each([dirs |-> fs.dirs, files |-> fs.files,
                                raised |-> FALSE],
                               <<p.root, p.raw_input, p.processed, p.graded,
                                 p.rubric, p.artifacts>>) IN
        /\ IF job_id # NoJobId THEN job_identifier = job_id
           ELSE /\ Unused(job_identifier)
                /\ \A other \in WorkspaceIds :
                       Unused(other) => job_identifier <= other
        /\ workspace[job_identifier].calls < MaxAllocations
        /\ fs' = [dirs |-> disk.dirs, files |-> disk.files]
        /\ workspace' =
             [workspace EXCEPT ![job_identifier] =
                 [calls |-> @.calls + 1, raised |-> disk.raised,
                  returned |-> IF disk.raised THEN NoJobPaths ELSE p,
                  found |-> FilesUnder(fs.files, p.root) # {}]]
        /\ UNCHANGED <<coreVars, streamVars, facadeVars, gradingVars>>

\* Directories of a workspace the api handlers write uploads to: write_files
\* to raw_input or processed, write_rubric to rubric.
Destinations(p) == {p.raw_input, p.processed, p.rubric}

\* destination.mkdir(parents=True, exist_ok=True); target.write_bytes(data)
write_bytes(job_id, name) ==
    LET p == workspace[job_id].returned IN
    /\ p # NoJobPaths
    /\ \E destination \in Destinations(p) :
         LET disk == mkdir([dirs |-> fs.dirs, files |-> fs.files,
                            raised |-> FALSE], destination) IN
         /\ ~disk.raised
         /\ fs' = [dirs |-> disk.dirs,
                   files |-> disk.files \cup {destination \o <<name>>}]
    /\ UNCHANGED <<coreVars, streamVars, facadeVars, gradingVars, workspace>>

----------------------------------------------------------------------------
(* One invocation of grading.run_grading: its loop over the papers and,    *)
(* for each, evaluate_paper with the two get_evaluation calls it hands to  *)
(* a ThreadPoolExecutor of its own and the moderate_evaluations call.      *)

Papers == 1 .. MaxPapers

Futures == {"future_a", "future_b"}

\* A call that was not made, is under way, returned a value or raised.
NotCalled == "not called"

Started == "running"

CallOutcomes == {"returned", "raised"}

IdleGrader ==
    [pc |-> "loop", paper |-> 0, raising |-> FALSE,
     futures |-> [n \in Papers |-> [f \in Futures |-> NotCalled]],
     moderation |-> [n \in Papers |-> NotCalled],
     evaluation |-> [n \in Papers |-> NotCalled]]

\* Bug variant: the executor is left with shutdown(wait=False).
shutdown_no_wait(submitted) == TRUE

\* Leaving `with ThreadPoolExecutor() as executor:` is
\* executor.shutdown(wait=True): it returns when no submitted call is running.
shutdown(submitted) == \A f \in Futures : submitted[f] # Started

\* for filename in os.listdir(input_folder): ... evaluate_paper(...) is
\* entered for the next paper; the executor is made.
evaluate_paper ==
    /\ grader.pc = "loop"
    /\ grader.paper < MaxPapers
    /\ grader' = [grader EXCEPT !.pc = "with", !.paper = @ + 1,
                                !.raising = FALSE,
                                !.evaluation[grader.paper + 1] = Started]
    /\ UNCHANGED <<coreVars, streamVars, facadeVars, workspaceVars>>

\* if not xai_api_key: raise ValueError(...); else executor.submit(...) twice.
\* ThreadPoolExecutor() has at least five threads, so each call starts at once.
executor_submit ==
    LET n == grader.paper IN
    /\ grader.pc = "with"
    /\ grader' =
         IF xai_api_key = None
         THEN [grader EXCEPT !.pc = "exit", !.raising = TRUE]
         ELSE [grader EXCEPT !.pc = "future_a",
                             !.futures[n] = [f \in Futures |-> Started]]
    /\ UNCHANGED <<coreVars, streamVars, facadeVars, workspaceVars>>

\* get_evaluation on a thread of an executor: requests.post gives a response
\* or raise_for_status() / the transport raises.
get_evaluation(n, f, outcome) ==
    /\ grader.futures[n][f] = Started
    /\ grader' = [grader EXCEPT !.futures[n][f] = outcome]
    /\ UNCHANGED <<coreVars, streamVars, facadeVars, workspaceVars>>

\* evaluation_a = future_a.result(); evaluation_b = future_b.result():
\* blocks until the call is over and raises what the call raised.
future_result ==
    LET n == grader.paper
        f == grader.pc IN
    /\ f \in Futures
    /\ grader.futures[n][f] # Started
    /\ grader' =
         IF grader.futures[n][f] = "raised"
         THEN [grader EXCEPT !.pc = "exit", !.raising = TRUE]
         ELSE [grader EXCEPT !.pc = IF f = "future_a" THEN "future_b" ELSE "exit"]
    /\ UNCHANGED <<coreVars, streamVars, facadeVars, workspaceVars>>

\* The `with` block is left.  With an exception on its way the except clause
\* raises RuntimeError and run_grading's loop prints it and goes on;
\* otherwise moderate_evaluations is called.
executor_exit ==
    LET n == grader.paper IN
    /\ grader.pc = "exit"
    /\ shutdown(grader.futures[n])
    /\ grader' =
         IF grader.raising
         THEN [grader EXCEPT !.pc = "loop", !.evaluation[n] = "raised"]
         ELSE [grader EXCEPT !.pc = "moderate", !.moderation[n] = Started]
    /\ UNCHANGED <<coreVars, streamVars, facadeVars, workspaceVars>>

\* moderate_evaluations returns (evaluate_paper returns the three texts) or
\* raises (RuntimeError).
moderate_evaluations(outcome) ==
    LET n == grader.paper IN
    /\ grader.pc = "moderate"
    /\ grader' = [grader EXCEPT !.pc = "loop", !.moderation[n] = outcome,
                                !.evaluation[n] = outcome]
    /\ UNCHANGED <<coreVars, streamVars, facadeVars, workspaceVars>>

----------------------------------------------------------------------------
(* Specifications *)

InitStreams ==
    /\ sys_stdout = __stdout__
    /\ sys_stderr = __stderr__
    /\ sinks = [t \in Sinks |-> <<>>]
    /\ threads = [w \in WorkerIds |-> IdleThread]

\* What load_api_keys() can return: the configured key, or None.
ApiKeys == {None, "xai-key"}

\* The output directories are empty and nobody is inside run_full_pipeline.
InitFacade ==
    /\ dirs = [d \in OutputDirs |-> {}]
    /\ facade = IdleFacade

InitRegistry(api_key) ==
    /\ xai_api_key = api_key
    /\ lock = Unlocked
    /\ input_dirs = {}
    /\ jobs = <<>>
    /\ queue = <<>>
    /\ workers = [w \in WorkerIds |-> IdleWorker]
    /\ unstarted = {}
    /\ reader = IdleReader
    /\ response = NoResponse
    /\ calls = [j \in JobIds |-> [processing |-> 0, grading |-> 0]]
    /\ submits = [j \in JobIds |-> 0]
    /\ versions = {}
    /\ lib_starts = 0

\* GradeFactoryPipeline.__init__ has made jobs_root; no workspace was asked for.
InitWorkspaces ==
    /\ fs = [dirs |-> {jobs_root}, files |-> {}]
    /\ workspace = [id \in WorkspaceIds |-> NoWorkspace]

\* run_grading has not been entered.
InitGrader == grader = IdleGrader

InitWith(api_key) ==
    /\ InitRegistry(api_key)
    /\ InitStreams
    /\ InitFacade
    /\ InitWorkspaces
    /\ InitGrader

\* The deployed program: the API key is configured.
Init == InitWith("xai-key")

\* The facade may be handed output directories that already hold files.
InitDirs ==
    /\ InitRegistry("xai-key")
    /\ InitStreams
    /\ dirs \in [OutputDirs -> SUBSET FileNames]
    /\ facade = IdleFacade
    /\ InitWorkspaces
    /\ InitGrader

\* jobs_root may hold a file where a workspace is to be made.
InitDisk ==
    /\ InitRegistry("xai-key")
    /\ InitStreams
    /\ InitFacade
    /\ \E blocked \in SUBSET WorkspaceIds :
           fs = [dirs |-> {jobs_root}, files |-> {JobRoot(id) : id \in blocked}]
    /\ workspace = [id \in WorkspaceIds |-> NoWorkspace]
    /\ InitGrader

\* Any environment: the key may be missing.
InitEnv == \E api_key \in ApiKeys : InitWith(api_key)

\* Fewer than `limit` jobs exist: the bound on create_job of a specification.
Below(limit) == Cardinality(DOMAIN jobs) < limit

Core(limit) ==
    \/ Below(limit) /\ \E t \in JobTypes : create_job(t)
    \/ \E j \in JobIds : api_start(j)
    \/ \E w \in WorkerIds : WorkerStep(w)

\* The program as served by api.py: every job is started once, by the
\* handler that created it, with the start method of its type.
Next == Core(MaxJobs)

Spec == Init /\ [][Next]_vars

\* The same, with a caller polling snapshots.
NextRead ==
    \/ Core(MaxReadJobs)
    \/ \E j \in JobIds : snapshot_begin(j)
    \/ _serialize_job
    \/ snapshot_return

SpecRead == Init /\ [][NextRead]_vars

\* The same, with DELETE requests.
NextApi ==
    \/ Core(MaxApiJobs)
    \/ \E j \in 1 .. MaxApiJobs + 1 : delete_job(j)

SpecApi == Init /\ [][NextApi]_vars

\* The JobManager used directly: start_* may be called for any id, any number
\* of times, with any of the three methods.
NextLib ==
    \/ Core(MaxLibJobs)
    \/ \E fn \in RunFns, j \in 1 .. MaxLibJobs, r \in BOOLEAN : lib_start(fn, j, r)

SpecLib == Init /\ [][NextLib]_vars

\* The JobManager in an environment that can fail it: the API key may be
\* missing, the rubric path handed to start_* may not exist, and a job's input
\* directory may be removed.
NextEnv ==
    \/ Below(MaxEnvJobs) /\ \E t \in JobTypes : create_job(t)
    \/ \E j \in JobIds, r \in BOOLEAN : env_start(j, r)
    \/ \E j \in DOMAIN jobs : remove_input_dir(j)
    \/ \E w \in WorkerIds : WorkerStep(w)

SpecEnv == InitEnv /\ [][NextEnv]_vars

\* Stage invocations of the pool's threads, seen at their output capture.
NextStreams == \E w \in WorkerIds : ThreadStep(w)

SpecStreams == Init /\ [][NextStreams]_vars

\* A caller of the job-less facade.
NextFacade ==
    \/ \E i, r \in BOOLEAN : run_full_pipeline(i, r)
    \/ facade_before
    \/ facade_capability
    \/ facade_after

SpecFacade == InitDirs /\ [][NextFacade]_vars

\* Callers of the workspace allocator and the writers of workspace files.
NextWorkspace ==
    \/ \E job_id \in WorkspaceIds \cup {NoJobId} : create_job_workspace(job_id)
    \/ \E job_id \in WorkspaceIds : write_bytes(job_id, "a.pdf")

SpecWorkspace == InitDisk /\ [][NextWorkspace]_vars

\* One invocation of grading.run_grading and the threads of its executors.
NextGrading ==
    \/ evaluate_paper
    \/ executor_submit
    \/ \E n \in Papers, f \in Futures, outcome \in CallOutcomes :
           get_evaluation(n, f, outcome)
    \/ future_result
    \/ executor_exit
    \/ \E outcome \in CallOutcomes : moderate_evaluations(outcome)

SpecGrading == InitEnv /\ [][NextGrading]_vars

\* The program under fair scheduling: a worker thread that can take a step
\* eventually takes one, and a capability call eventually returns or raises.
LiveSpec == Spec /\ \A w \in WorkerIds : WF_vars(WorkerStep(w))

----------------------------------------------------------------------------
(* Claims *)

Terminal == {JOB_STATUS_COMPLETED, JOB_STATUS_FAILED}

Running == {j \in DOMAIN jobs : jobs[j].status = JOB_STATUS_RUNNING}

HeldBy(job_id) == {w \in WorkerIds : workers[w].job_id = job_id}

\* C1: in every reachable state, a job's status is `completed` if and only if
\* every one of its stages has status `completed`.
C1_CompletedIffAllStages ==
    \A j \in DOMAIN jobs :
        (jobs[j].status = JOB_STATUS_COMPLETED) <=> AllStagesCompleted(jobs[j])

\* C2: a finished snapshot equals the value the job record had at one single
\* instant of the snapshot call.
C2_SnapshotIsOneInstant ==
    (reader.pc = "done" /\ reader.found)
        => SnapshotOf(reader) \in {Serialized(v) : v \in versions}

\* C3: under any sequence of registry and scheduler operations, a job record
\* whose status is `failed` is never modified again.
C3_FailedIsFrozen ==
    [][\A j \in DOMAIN jobs :
          jobs[j].status = JOB_STATUS_FAILED => jobs'[j] = jobs[j]]_vars

Stage1Failed(j) ==
    /\ jobs[j].job_type = "full"
    /\ jobs[j].stages["processing"].status = JOB_STATUS_FAILED

\* C5: once the processing stage of a full job has failed, its grading stage
\* is still `pending`, the grading capability was never invoked for the job,
\* and the worker has returned.
C5_Stage1FailureContained ==
    \A j \in DOMAIN jobs :
        Stage1Failed(j)
          => /\ jobs[j].stages["grading"].status = JOB_STATUS_PENDING
             /\ calls[j]["grading"] = 0
             /\ HeldBy(j) = {}
             /\ \A i \in 1 .. Len(queue) : queue[i].job_id # j

C5_Witness == \E j \in DOMAIN jobs : Stage1Failed(j) /\ calls[j]["processing"] = 1

\* C6: at most max_workers job records have status `running`, and at most
\* max_workers capability invocations are in flight.
C6_RunningAtMostPool ==
    /\ Cardinality(Running) <= max_workers
    /\ Cardinality({j \in JobIds :
                      \E w \in WorkerIds : /\ workers[w].job_id = j
                                           /\ workers[w].pc = "in_capability"})
         <= max_workers

\* The pool is full, both invocations are in flight, and a job waits behind it.
C6_Witness ==
    /\ Cardinality(Running) = max_workers
    /\ \A w \in WorkerIds : workers[w].pc = "in_capability"
    /\ queue # <<>>

\* C7: under fair scheduling every submitted job eventually reaches
\* `completed` or `failed`.
C7_SubmittedTerminates ==
    \A j \in 1 .. MaxJobs :
        (submits[j] > 0) ~> (j \in DOMAIN jobs /\ jobs[j].status \in Terminal)

\* A job that waited behind a full pool has reached a terminal status.
C7_Witness ==
    /\ Cardinality(DOMAIN jobs) > max_workers
    /\ \A j \in DOMAIN jobs : jobs[j].status \in Terminal

\* C8: once the worker executing a job has returned, a record or a snapshot
\* read then that shows every stage `completed` shows job status `completed`.
C8_ConvergedCompleted ==
    /\ \A j \in DOMAIN jobs :
          (Quiescent(j) /\ AllStagesCompleted(jobs[j]))
            => jobs[j].status = JOB_STATUS_COMPLETED
    /\ (/\ reader.pc = "done"
        /\ reader.quiet
        /\ \A i \in 1 .. Len(reader.stages) :
              reader.stages[i].status = JOB_STATUS_COMPLETED)
          => reader.status = JOB_STATUS_COMPLETED

C8_Witness ==
    /\ reader.pc = "done"
    /\ reader.quiet
    /\ Len(reader.stages) = 2
    /\ \A i \in 1 .. Len(reader.stages) :
          reader.stages[i].status = JOB_STATUS_COMPLETED

\* C9: DELETE on a job whose status is `running` is answered with the job-busy
\* error and changes nothing.
C9_DeleteRunningIsBusy ==
    [][(response' # response /\ response'.before = JOB_STATUS_RUNNING)
          => (response'.outcome = "400 job busy" /\ jobs' = jobs)]_vars

\* C10: DELETE on a job that is `pending`, `completed` or `failed` succeeds and
\* the id is absent from then on; DELETE on an unknown id is answered not-found.
C10_DeleteRemoves ==
    /\ response.before \in {JOB_STATUS_PENDING, JOB_STATUS_COMPLETED, JOB_STATUS_FAILED}
          => (response.outcome = "200 deleted" /\ response.job_id \notin DOMAIN jobs)
    /\ response.before = "absent" => response.outcome = "404 Job not found"

EndsWith(s, suffix) ==
    /\ Len(suffix) <= Len(s)
    /\ SubSeq(s, Len(s) - Len(suffix) + 1, Len(s)) = suffix

\* C11: when a stage's capability or precondition check has raised, the
\* worker's next step records it: the job is `failed`, the faulting stage is
\* `failed`, the error field is the fault's message, the stage's stderr ends
\* with that message, and the worker is idle again with the queue untouched.
C11_FaultIsCaught ==
    [][\A w \in WorkerIds :
          (workers[w].pc = "fail_stage" /\ workers'[w].pc # "fail_stage")
            => LET j  == workers[w].job_id
                   st == workers[w].stage
                   m  == workers[w].message IN
               /\ jobs'[j].status = JOB_STATUS_FAILED
               /\ jobs'[j].stages[st].status = JOB_STATUS_FAILED
               /\ jobs'[j].error = m
               /\ EndsWith(jobs'[j].stages[st].stderr, m)
               /\ workers'[w].pc = "idle"
               /\ queue' = queue]_vars

\* The thread that recorded the fault of job 1 is executing job 2.
C11_Witness ==
    /\ 1 \in DOMAIN jobs
    /\ jobs[1].status = JOB_STATUS_FAILED
    /\ jobs[1].error = "boom"
    /\ workers[1].job_id = 2
    /\ workers[1].pc = "in_capability"

C13_NoKeyFailsJob ==
    xai_api_key = None
      => \A j \in DOMAIN jobs :
            /\ j \in unstarted => jobs[j].status = JOB_STATUS_PENDING
            /\ Quiescent(j)
                 => /\ jobs[j].status = JOB_STATUS_FAILED
                    /\ \E n \in DOMAIN jobs[j].stages :
                          jobs[j].stages[n].status = JOB_STATUS_FAILED

\* C14: the captured stdout / stderr an invocation returns is exactly the
\* text its own capability call printed, in order, and nothing was written to
\* the terminal streams of the process.
C14_CapturedIsOwnText ==
    /\ \A w \in WorkerIds :
          threads[w].pc = "returned" => threads[w].result = threads[w].printed
    /\ sinks[__stdout__] = <<>>
    /\ sinks[__stderr__] = <<>>

\* Positions of a worker just before a `with self._lock:` block.
LockedPcs ==
    {"mark_job_running", "mark_stage_status", "invoke", "complete_stage",
     "mark_job_completed", "fail_stage"}

\* C15: while a worker is inside pipeline.run_* it does not hold the registry
\* lock, so every other worker standing before a locked block can enter it and
\* a snapshot (get_job) of the job can begin.
C15_NoLockAcrossCall ==
    \A w \in WorkerIds :
        workers[w].pc = "in_capability"
          => /\ lock # w
             /\ \A v \in WorkerIds \ {w} :
                   workers[v].pc \in LockedPcs => ENABLED WorkerStep(v)
             /\ reader.pc = "idle" => ENABLED snapshot_begin(workers[w].job_id)

\* One worker is inside the capability while the other stands before
\* _complete_stage.
C15_Witness ==
    /\ workers[1].pc = "in_capability"
    /\ workers[2].pc = "complete_stage"

Produced(result) ==
    [i \in 1 .. Len(result.output_files) |->
        SubSeq(result.output_files[i], 3, Len(result.output_files[i]))]

\* The stage snapshot of a completed stage that returned `result`.
CompletedWith(stage, result) ==
    /\ stage.status = JOB_STATUS_COMPLETED
    /\ stage.stdout = result.stdout
    /\ stage.stderr = result.stderr
    /\ stage.output_files = Produced(result)

\* C17: the step that fails the grading stage of a full job leaves the
\* snapshot of its completed processing stage as it was, and that snapshot is
\* the one recorded from the processing result.
C17_FirstStageKept ==
    [][\A j \in DOMAIN jobs :
          /\ (/\ jobs[j].job_type = "full"
              /\ jobs[j].stages["grading"].status # JOB_STATUS_FAILED
              /\ jobs'[j].stages["grading"].status = JOB_STATUS_FAILED)
               => /\ jobs'[j].stages["processing"] = jobs[j].stages["processing"]
                  /\ jobs[j].stages["processing"].status = JOB_STATUS_COMPLETED
          /\ (/\ jobs[j].job_type = "full"
              /\ jobs[j].stages["grading"].status = JOB_STATUS_FAILED)
               => \E r \in StageResults(j, "processing") :
                     CompletedWith(jobs[j].stages["processing"], r)]_vars

\* The grading stage of a full job failed after its processing stage had
\* produced two files.
C17_Witness ==
    \E j \in DOMAIN jobs :
        /\ jobs[j].job_type = "full"
        /\ jobs[j].stages["grading"].status = JOB_STATUS_FAILED
        /\ Len(jobs[j].stages["processing"].output_files) = 2

NotFoundMessages == {"Input folder not found", "Rubric file not found"}

\* The input directory or the rubric the stage of worker w needs is missing.
Missing(w) ==
    \/ /\ workers[w].stage = FirstStage(workers[w].fn)
       /\ workers[w].job_id \notin input_dirs
    \/ /\ workers[w].stage = "grading"
       /\ ~workers[w].rubric_exists

\* C18: a stage whose input directory or rubric is missing raises a not-found
\* error without the capability being invoked, and recording that error
\* leaves the job `failed`, its error the not-found message and the stage
\* `failed`.
C18_NotFoundBeforeCall ==
    [][\A w \in WorkerIds :
          LET j  == workers[w].job_id
              st == workers[w].stage IN
          /\ (workers[w].pc = "invoke" /\ workers'[w].pc # "invoke" /\ Missing(w))
               => /\ workers'[w].pc = "fail_stage"
                  /\ workers'[w].message \in NotFoundMessages
                  /\ calls' = calls
          /\ (/\ workers[w].pc = "fail_stage"
              /\ workers'[w].pc # "fail_stage"
              /\ workers[w].message \in NotFoundMessages)
               => /\ jobs'[j].status = JOB_STATUS_FAILED
                  /\ jobs'[j].error = workers[w].message
                  /\ jobs'[j].stages[st].status = JOB_STATUS_FAILED
                  /\ calls[j][st] = 0]_vars

\* The grading stage of a full job failed on a missing rubric, and a job
\* failed on a missing input directory.
C18_Witness ==
    \E j, k \in DOMAIN jobs :
        /\ jobs[j].job_type = "full"
        /\ jobs[j].stages["grading"].status = JOB_STATUS_FAILED
        /\ jobs[j].error = "Rubric file not found"
        /\ jobs[k].status = JOB_STATUS_FAILED
        /\ jobs[k].error = "Input folder not found"

\* C19: once its worker has returned, a job either failed on a fault a
\* capability raised, or it is `completed` with every stage `completed` and
\* each stage listing exactly the files its invocation produced.
C19_SuccessCompletes ==
    \A j \in DOMAIN jobs :
        Quiescent(j)
          => \/ /\ jobs[j].status = JOB_STATUS_FAILED
                /\ jobs[j].error \in CapabilityFaults
             \/ /\ jobs[j].status = JOB_STATUS_COMPLETED
                /\ \A n \in DOMAIN jobs[j].stages :
                      \E r \in StageResults(j, n) :
                          CompletedWith(jobs[j].stages[n], r)

\* A full job completed with two files listed in each stage.
C19_Witness ==
    \E j \in DOMAIN jobs :
        /\ Quiescent(j)
        /\ jobs[j].job_type = "full"
        /\ jobs[j].status = JOB_STATUS_COMPLETED
        /\ jobs[j].stages["processing"].output_files =
             << <<"processed", "a.pdf">>, <<"processed", "b.pdf">> >>
        /\ jobs[j].stages["grading"].output_files =
             << <<"graded", "a.pdf">>, <<"graded", "b.pdf">> >>

\* C20: a job record just created is `pending` with no error, its stages are
\* `pending` with no text and no output files, and its stage names in order
\* are: processing (process job), grading (grade job), processing then
\* grading (full job).
C20_FreshRecord ==
    \A j \in unstarted :
        LET listed == Serialized(jobs[j]).stages
            names  == [i \in 1 .. Len(listed) |-> listed[i].name] IN
        /\ jobs[j].status = JOB_STATUS_PENDING
        /\ jobs[j].error = None
        /\ names = CASE jobs[j].job_type = "process" -> <<"processing">>
                     [] jobs[j].job_type = "grade"   -> <<"grading">>
                     [] jobs[j].job_type = "full"    -> <<"processing", "grading">>
        /\ DOMAIN jobs[j].stages = {names[i] : i \in 1 .. Len(names)}
        /\ \A i \in 1 .. Len(listed) :
              listed[i] = [name |-> names[i], status |-> JOB_STATUS_PENDING,
                           stdout |-> "", stderr |-> "", output_files |-> <<>>]

\* One fresh record of each job type.
C20_Witness ==
    \A t \in JobTypes : \E j \in unstarted : jobs[j].job_type = t

\* C24: in a full job the grading stage leaves `pending` only once the
\* processing stage is `completed`, the grading capability is invoked only
\* after the processing capability has returned, the two stages are never
\* both `running`, and one worker at most executes the job.
C24_StagesInOrder ==
    \A j \in DOMAIN jobs :
        jobs[j].job_type = "full"
          => LET processing == jobs[j].stages["processing"]
                 grading    == jobs[j].stages["grading"] IN
             /\ grading.status # JOB_STATUS_PENDING
                  => processing.status = JOB_STATUS_COMPLETED
             /\ calls[j]["grading"] > 0
                  => /\ calls[j]["processing"] = 1
                     /\ processing.status = JOB_STATUS_COMPLETED
                     /\ \A w \in HeldBy(j) : workers[w].stage = "grading"
             /\ ~(/\ processing.status = JOB_STATUS_RUNNING
                  /\ grading.status = JOB_STATUS_RUNNING)
             /\ Cardinality(HeldBy(j)) <= 1

\* The grading capability of a full job is being executed.
C24_Witness ==
    \E w \in WorkerIds :
        /\ workers[w].fn = "_run_full_pipeline"
        /\ workers[w].stage = "grading"
        /\ workers[w].pc = "in_capability"

\* C25: _fail_stage on an existing job sets the job `failed` whatever its
\* status was, sets the stage `failed`, sets the stage's stderr to the message
\* if it was empty and to the old text, a newline and the message otherwise,
\* and leaves the stage's stdout and output_files as they were.
C25_FailStageAppends ==
    [][\A w \in WorkerIds :
          LET j  == workers[w].job_id
              st == workers[w].stage
              m  == workers[w].message IN
          (/\ workers[w].pc = "fail_stage"
           /\ workers'[w].pc # "fail_stage"
           /\ j \in DOMAIN jobs)
            => /\ jobs'[j].status = JOB_STATUS_FAILED
               /\ st \in DOMAIN jobs[j].stages
                    => LET old == jobs[j].stages[st]
                           new == jobs'[j].stages[st] IN
                       /\ new.status = JOB_STATUS_FAILED
                       /\ new.stderr = IF old.stderr = "" THEN m
                                       ELSE old.stderr \o "\n" \o m
                       /\ new.stdout = old.stdout
                       /\ new.output_files = old.output_files
                       /\ new.name = old.name]_vars

\* A stage that had completed with text in its stderr was run again and
\* failed: the message follows the old text.
C25_Witness ==
    \E j \in DOMAIN jobs :
        /\ jobs[j].status = JOB_STATUS_FAILED
        /\ "grading" \in DOMAIN jobs[j].stages
        /\ jobs[j].stages["grading"].stderr \in
             {"item error\n" \o m : m \in CapabilityFaults \cup {"Rubric file not found"}}

\* C26: for a job submitted once, each stage's capability is invoked at most
\* once, and once the job has failed no task of it is queued or executing and
\* a stage after the failed one was never invoked.
C26_NoRetry ==
    \A j \in DOMAIN jobs :
        /\ \A n \in {"processing", "grading"} : calls[j][n] <= 1
        /\ jobs[j].status = JOB_STATUS_FAILED
             => /\ HeldBy(j) = {}
                /\ \A i \in 1 .. Len(queue) : queue[i].job_id # j
                /\ \A n \in DOMAIN jobs[j].stages :
                      jobs[j].stages[n].status = JOB_STATUS_PENDING
                        => calls[j][n] = 0

\* A grading stage failed after its one invocation.
C26_Witness ==
    \E j \in DOMAIN jobs :
        /\ jobs[j].status = JOB_STATUS_FAILED
        /\ jobs[j].job_type = "grade"
        /\ calls[j]["grading"] = 1

\* C28: when no invocation is in progress any more, sys.stdout and sys.stderr
\* are the streams the process started with.
C28_StreamsRestored ==
    (\A w \in WorkerIds : threads[w].pc \in {"idle", "returned"})
      => (sys_stdout = __stdout__ /\ sys_stderr = __stderr__)

\* Captured text of a stage in which every input file errored.
EveryItemErrored(stage) ==
    \/ stage.name = "processing" /\ stage.stdout = "out\nitem error"
    \/ stage.name = "grading" /\ stage.stderr = "item error"

\* C29: a job whose worker has returned and in whose stages every input file
\* errored is `completed`, with every stage `completed`, no error and no
\* output files.
C29_ItemErrorsDoNotFail ==
    \A j \in DOMAIN jobs :
        (Quiescent(j) /\ \A n \in DOMAIN jobs[j].stages :
                             EveryItemErrored(jobs[j].stages[n]))
          => /\ jobs[j].status = JOB_STATUS_COMPLETED
             /\ AllStagesCompleted(jobs[j])
             /\ jobs[j].error = None
             /\ \A n \in DOMAIN jobs[j].stages :
                   jobs[j].stages[n].output_files = <<>>

\* A full job ended with every file of both stages in error.
C29_Witness ==
    \E j \in DOMAIN jobs :
        /\ Quiescent(j)
        /\ jobs[j].job_type = "full"
        /\ \A n \in DOMAIN jobs[j].stages : EveryItemErrored(jobs[j].stages[n])

\* C30: for a job submitted once, a failed stage has an empty stdout, no
\* output files, and a stderr that is exactly the fault's message, which is
\* the record's error.
C30_FailedStageHasOnlyMessage ==
    \A j \in DOMAIN jobs :
        \A n \in DOMAIN jobs[j].stages :
            jobs[j].stages[n].status = JOB_STATUS_FAILED
              => /\ jobs[j].stages[n].stdout = ""
                 /\ jobs[j].stages[n].output_files = <<>>
                 /\ jobs[j].stages[n].stderr = jobs[j].error
                 /\ jobs[j].error \in CapabilityFaults \cup NotFoundMessages

\* A processing stage failed inside its capability.
C30_Witness ==
    \E j \in DOMAIN jobs :
        /\ "processing" \in DOMAIN jobs[j].stages
        /\ jobs[j].stages["processing"].status = JOB_STATUS_FAILED
        /\ jobs[j].error = "boom"
        /\ calls[j]["processing"] = 1

\* C21: the output_files of a StageResult are exactly the names that were in
\* the output directory after the capability ran and not before, in strictly
\* ascending lexicographic order.
C21_NewFilesSorted ==
    [][(facade.pc = "after" /\ facade'.pc # "after")
          => LET result == IF facade.stage = "processing"
                           THEN facade'.processing ELSE facade'.grading
                 files  == result.output_files IN
             /\ result.present
             /\ {files[i] : i \in 1 .. Len(files)} = facade'.after \ facade.before
             /\ \A i, k \in 1 .. Len(files) : i < k => LexLess(files[i], files[k])]_vars

\* A stage run found two new files next to one that pre-existed, the newer
\* creation sorting first.
C21_Witness ==
    /\ facade.pc = "returned"
    /\ facade.grading.output_files = <<Name(2), Name(1)>>
    /\ facade.before = {Name(3)}

\* C22: when the processing stage of run_full_pipeline fails, the grading
\* capability is never invoked and the call gives its caller a PipelineResult
\* without a grading outcome.
C22_PartialResult ==
    facade.failed = "processing"
      => /\ facade.invoked["grading"] = 0
         /\ facade.outcome.kind = "PipelineResult"
         /\ ~facade.outcome.grading.present

\* C23: a call of create_job_workspace with the id of an earlier successful
\* call does not fail, returns JobPaths equal to the earlier ones, and leaves
\* the set of files on disk as it was.
C23_AllocatorIdempotent ==
    [][\A id \in WorkspaceIds :
          (/\ workspace'[id].calls = workspace[id].calls + 1
           /\ workspace[id].calls > 0
           /\ ~workspace[id].raised)
            => /\ ~workspace'[id].raised
               /\ workspace'[id].returned = workspace[id].returned
               /\ workspace'[id].returned = JobPaths(id)
               /\ fs'.files = fs.files]_vars

\* The second call for an id found files in the workspace the first had made.
C23_Witness ==
    \E id \in WorkspaceIds :
        /\ workspace[id].calls = 2
        /\ workspace[id].found
        /\ ~workspace[id].raised
        /\ FilesUnder(fs.files, JobRoot(id)) # {}

\* The get_evaluation calls under way, over all the papers of the invocation.
RunningCalls ==
    {<<n, f>> \in Papers \X Futures : grader.futures[n][f] = Started}

\* C27: in the evaluation of a paper at most two get_evaluation calls run at
\* a time; moderate_evaluations is started only when both have returned a
\* value; when one of them raises, moderate_evaluations is never called for
\* the paper and evaluate_paper raises.
C27_TwoPhaseJoin ==
    /\ Cardinality(RunningCalls) <= 2
    /\ \A n \in Papers :
         /\ grader.moderation[n] # NotCalled
              => \A f \in Futures : grader.futures[n][f] = "returned"
         /\ (\E f \in Futures : grader.futures[n][f] = "raised")
              => /\ grader.moderation[n] = NotCalled
                 /\ grader.evaluation[n] \in {Started, "raised"}
                 /\ (n < grader.paper \/ grader.pc = "loop")
                      => grader.evaluation[n] = "raised"

\* One paper was evaluated with both calls and the moderation returning, and
\* another failed on its second call.
C27_Witness ==
    /\ grader.pc = "loop"
    /\ \E n, k \in Papers :
         /\ grader.moderation[n] = "returned"
         /\ grader.evaluation[n] = "returned"
         /\ grader.futures[k] = [f \in Futures |->
                                    IF f = "future_a" THEN "returned" ELSE "raised"]
         /\ grader.evaluation[k] = "raised"

====
